---- MODULE Spec2Model ----
(***************************************************************************)
(* Model of app.py, the DMR AI video generator: a Streamlit script that    *)
(* splits a story into scenes with a completion request, fetches one image *)
(* and one narration per scene, and assembles them into one video.         *)
(*                                                                         *)
(* Strings the code parses are sequences of one-character strings.  A file *)
(* payload is a natural number: 0 is the empty byte string, d > 0 a        *)
(* non-empty payload which, read as media, plays for d units of time.      *)
(* A path is <<directory, name>>, a name <<stem, index, extension>>.       *)
(***************************************************************************)
EXTENDS Integers, Sequences, FiniteSets, TLC

VARIABLES
    secrets,      \* st.secrets: the three configuration values
    replies,      \* contents the completion service may answer with
    payloads,     \* payloads the download, speech service and uploader may give
    users,        \* the browser sessions that interact with the app
    dirs,         \* directories that exist under the system temp directory
    fs,           \* files: path -> [data, by]; "by" records the writing session
    widgets,      \* per session: text_input, music_upload, the button
    pc,           \* per session: position of the script run
    loc,          \* per session: the Python locals of the run
    ui,           \* per session: what the page shows
    log           \* per session: the operations of the current run, in order

vars == <<secrets, replies, payloads, users, dirs, fs, widgets, pc, loc, ui, log>>

\* ------------------------------------------------------------------ bounds

MaxLines == 3      \* most lines in a completion reply of the application runs
MaxLen == 5        \* longest completion reply of the segmentation runs
MaxClips == 2      \* most scenes handed to create_video directly
MaxDur == 2        \* longest narration handed to create_video directly

MinScenes == 3     \* app.py 36: fewer lines than this fall back to one scene

Sessions == {"s1", "s2"}
DirNames == {"tmpA", "tmpB"}
SecretNames == {"OPENAI_API_KEY", "ELEVENLABS_API_KEY", "VOICE_ID"}
SecretValues == {"None", "", "key"}     \* "None": the secret is not there
Chars == {"a", " ", "\n"}
Whitespace == {" ", "\n"}
Texts == {<<>>, <<" ">>, <<"a">>}
NoUpload == 0 - 1
NoData == 0 - 1
None == <<>>
EmptyPath == <<"">>

\* ----------------------------------------------------------------- helpers

Max(a, b) == IF a >= b THEN a ELSE b

Min(a, b) == IF a <= b THEN a ELSE b

Range(f) == {f[j] : j \in DOMAIN f}

Strings(n) == UNION {[1..m -> Chars] : m \in 0..n}

\* str.strip(): leading and trailing whitespace removed
RECURSIVE LStrip(_)
LStrip(s) ==
    IF s = <<>> THEN s
    ELSE IF Head(s) \in Whitespace THEN LStrip(Tail(s)) ELSE s

RECURSIVE RStrip(_)
RStrip(s) ==
    IF s = <<>> THEN s
    ELSE IF s[Len(s)] \in Whitespace THEN RStrip(SubSeq(s, 1, Len(s) - 1)) ELSE s

Strip(s) == RStrip(LStrip(s))

\* str.split(sep): one piece more than there are separators
RECURSIVE Split(_, _)
Split(s, sep) ==
    IF \A j \in 1..Len(s) : s[j] # sep THEN <<s>>
    ELSE LET j == CHOOSE m \in 1..Len(s) :
                      s[m] = sep /\ \A q \in 1..(m - 1) : s[q] # sep
         IN  <<SubSeq(s, 1, j - 1)>> \o Split(SubSeq(s, j + 1, Len(s)), sep)

\* app.py 35-37: the scenes of a completion reply
Segment(prompt_text, content) ==
    LET scenes_text == Split(Strip(content), "\n")
    IN  IF Len(scenes_text) < MinScenes THEN <<prompt_text>> ELSE scenes_text

\* a reply of n lines, line m being m letters long
RECURSIVE ReplyOfLines(_)
ReplyOfLines(n) ==
    IF n = 1 THEN <<"a">>
    ELSE ReplyOfLines(n - 1) \o <<"\n">> \o [j \in 1..n |-> "a"]

AppReplies == {ReplyOfLines(n) : n \in 1..MaxLines}

\* Python truth of a secret
Truthy(v) == v \notin {"None", ""}

\* variant: stops only when all three secrets are missing (and for or)
ConfigMissingMut(sec) ==
    ~Truthy(sec["OPENAI_API_KEY"]) /\ ~Truthy(sec["ELEVENLABS_API_KEY"])
        /\ ~Truthy(sec["VOICE_ID"])

\* app.py 17
ConfigMissing(sec) ==
    ~Truthy(sec["OPENAI_API_KEY"]) \/ ~Truthy(sec["ELEVENLABS_API_KEY"])
        \/ ~Truthy(sec["VOICE_ID"])

\* ------------------------------------------------------------- file system

\* variant: the scene index left out of the file name
ScenePathMut(temp_dir, n, ext) == <<temp_dir, <<"scene", 0, ext>>>>

\* os.path.join(temp_dir, f"scene_{i}.<ext>")
ScenePath(temp_dir, n, ext) == <<temp_dir, <<"scene", n, ext>>>>

MusicPath(temp_dir) == <<temp_dir, <<"background_music", 0, "mp3">>>>

OutputPath(temp_dir) == <<temp_dir, <<"output_video", 0, "mp4">>>>

Exists(fsv, p) == p \in DOMAIN fsv

\* open(p, "wb") and write(data), by session s
WriteFile(fsv, p, data, s) ==
    [q \in (DOMAIN fsv) \cup {p} |->
        IF q = p THEN [data |-> data, by |-> s] ELSE fsv[q]]

\* the removal of directory d with all it holds
RmTree(fsv, d) == [q \in {p \in DOMAIN fsv : p[1] # d} |-> fsv[q]]

\* variant: a fixed-name directory, whether or not it exists already
NewTempDirsMut(ds) == DirNames

\* tempfile.TemporaryDirectory(): a directory that did not exist
NewTempDirs(ds) == DirNames \ ds

\* ------------------------------------------------------------------ locals

NoClip == [duration |-> 0, scenes |-> <<>>, audio |-> <<>>]

Blank ==
    [temp_dir |-> "", content |-> <<>>, scenes_text |-> <<>>, i |-> 0 - 1,
     img_data |-> NoData, audio_data |-> NoData,
     image_files |-> <<>>, audio_files |-> <<>>, subtitles |-> <<>>,
     music_path |-> None, output_path |-> None,
     k |-> 0 - 1, audio_clip |-> 0, img_clip |-> 0, clips |-> <<>>,
     final_clip |-> NoClip]

NoUi == [errors |-> 0, video |-> FALSE, success |-> FALSE, config |-> FALSE]

Ev(op, n, ok) == [op |-> op, n |-> n, ok |-> ok]

GeneratePcs ==
    {"completion", "image_req", "download", "write_img", "speech",
     "write_audio", "return"}

VideoPcs ==
    {"cv_audio", "cv_image", "cv_compose", "cv_concat", "cv_music", "cv_write"}

WritePcs == {"write_img", "write_audio", "music", "cv_write"}

Fallible ==
    {"completion", "image_req", "download", "write_img", "speech",
     "write_audio", "music"} \cup VideoPcs

\* variant: the loop ends one scene early
GenLoopMut(n, len) == IF n < len - 1 THEN "image_req" ELSE "return"

\* app.py 43: the for loop over enumerate(scenes_text)
GenLoop(n, len) == IF n < len THEN "image_req" ELSE "return"

\* app.py 74: the for loop over zip(image_files, audio_files, subtitles)
CvLoop(n, len) == IF n < len THEN "cv_audio" ELSE "cv_concat"

ZipLen(L) == Min(Len(L.image_files), Min(Len(L.audio_files), Len(L.subtitles)))

\* variant: a failed step is tried again
RaiseTargetMut(p) == p

\* app.py 107, 124: an exception of any step of the try block lands in except
RaiseTarget(p) == "except"

\* variant: the exception is swallowed without a message
ShowErrorMut(u) == u

\* app.py 125: st.error
ShowError(u) == [u EXCEPT !.errors = @ + 1]

\* variant: the clips overlaid from time 0 instead of played in sequence
RECURSIVE ConcatDurationMut(_)
ConcatDurationMut(clips) ==
    IF clips = <<>> THEN 0
    ELSE Max(Head(clips).duration, ConcatDurationMut(Tail(clips)))

\* app.py 86: concatenate_videoclips plays the clips one after the other
RECURSIVE ConcatDuration(_)
ConcatDuration(clips) ==
    IF clips = <<>> THEN 0
    ELSE Head(clips).duration + ConcatDuration(Tail(clips))

\* variant: no os.path.exists test
MixMusicMut(music_path, fsv) == music_path \notin {None, EmptyPath}

\* app.py 89: music_path and os.path.exists(music_path)
MixMusic(music_path, fsv) ==
    music_path \notin {None, EmptyPath} /\ Exists(fsv, music_path)

\* the scene index a step works on
StepIndex(s) ==
    IF pc[s] \in {"image_req", "download", "write_img", "speech", "write_audio"}
    THEN loc[s].i
    ELSE IF pc[s] \in {"cv_audio", "cv_image", "cv_compose"} THEN loc[s].k
    ELSE 0 - 1

\* the file a writing step writes
WriteTarget(s) ==
    IF pc[s] = "write_img" THEN ScenePath(loc[s].temp_dir, loc[s].i, "png")
    ELSE IF pc[s] = "write_audio" THEN ScenePath(loc[s].temp_dir, loc[s].i, "mp3")
    ELSE IF pc[s] = "music" THEN MusicPath(loc[s].temp_dir)
    ELSE loc[s].output_path

Logged(s, op, n, ok) == log' = [log EXCEPT ![s] = Append(@, Ev(op, n, ok))]

\* ----------------------------------------------------------------- actions

\* app.py 10-104: an interaction reruns the script from the top.  A session
\* interacts between its script runs; sessions run independently of each other.
Interact(s) ==
    /\ s \in users
    /\ pc[s] = "idle"
    /\ \E t \in Texts, m \in {NoUpload} \cup payloads, b \in BOOLEAN :
        /\ widgets' = [widgets EXCEPT
                          ![s] = [text_input |-> t, music_upload |-> m, button |-> b]]
        /\ IF ConfigMissing(secrets)
           THEN /\ ui' = [ui EXCEPT ![s] = [NoUi EXCEPT !.config = TRUE]]
                /\ pc' = pc
           ELSE /\ ui' = [ui EXCEPT ![s] = NoUi]
                /\ pc' = [pc EXCEPT
                             ![s] = IF b /\ Strip(t) # <<>> THEN "tmpdir" ELSE "idle"]
    /\ log' = [log EXCEPT ![s] = <<>>]
    /\ UNCHANGED <<secrets, replies, payloads, users, dirs, fs, loc>>

\* app.py 105-106: the run's scratch directory
TempDir(s) ==
    /\ pc[s] = "tmpdir"
    /\ \E d \in NewTempDirs(dirs) :
        /\ dirs' = dirs \cup {d}
        /\ loc' = [loc EXCEPT ![s] = [Blank EXCEPT !.temp_dir = d]]
    /\ pc' = [pc EXCEPT ![s] = "completion"]
    /\ Logged(s, "tmpdir", 0 - 1, TRUE)
    /\ UNCHANGED <<secrets, replies, payloads, users, fs, widgets, ui>>

\* app.py 28-41: the completion request and the segmentation of its reply
Complete(s) ==
    /\ pc[s] = "completion"
    /\ \E c \in replies :
        LET scenes == Segment(widgets[s].text_input, c)
        IN  /\ loc' = [loc EXCEPT ![s].content = c, ![s].scenes_text = scenes,
                                  ![s].i = 0, ![s].image_files = <<>>,
                                  ![s].audio_files = <<>>, ![s].subtitles = <<>>]
            /\ pc' = [pc EXCEPT ![s] = GenLoop(0, Len(scenes))]
            /\ Logged(s, "completion", Len(scenes), TRUE)
    /\ UNCHANGED <<secrets, replies, payloads, users, dirs, fs, widgets, ui>>

\* app.py 45-51: the image request, answered with a URL
ImageReq(s) ==
    /\ pc[s] = "image_req"
    /\ pc' = [pc EXCEPT ![s] = "download"]
    /\ Logged(s, "image_req", loc[s].i, TRUE)
    /\ UNCHANGED <<secrets, replies, payloads, users, dirs, fs, widgets, loc, ui>>

\* app.py 52: requests.get(img_url).content, whatever the body is
Download(s) ==
    /\ pc[s] = "download"
    /\ \E data \in payloads : loc' = [loc EXCEPT ![s].img_data = data]
    /\ pc' = [pc EXCEPT ![s] = "write_img"]
    /\ Logged(s, "download", loc[s].i, TRUE)
    /\ UNCHANGED <<secrets, replies, payloads, users, dirs, fs, widgets, ui>>

\* app.py 53-56
WriteImg(s) ==
    /\ pc[s] = "write_img"
    /\ LET img_path == ScenePath(loc[s].temp_dir, loc[s].i, "png")
       IN  /\ fs' = WriteFile(fs, img_path, loc[s].img_data, s)
           /\ loc' = [loc EXCEPT ![s].image_files = Append(@, img_path)]
    /\ pc' = [pc EXCEPT ![s] = "speech"]
    /\ Logged(s, "write_img", loc[s].i, TRUE)
    /\ UNCHANGED <<secrets, replies, payloads, users, dirs, widgets, ui>>

\* app.py 59-63: the speech request, answered with the audio bytes
Speech(s) ==
    /\ pc[s] = "speech"
    /\ \E data \in payloads : loc' = [loc EXCEPT ![s].audio_data = data]
    /\ pc' = [pc EXCEPT ![s] = "write_audio"]
    /\ Logged(s, "speech", loc[s].i, TRUE)
    /\ UNCHANGED <<secrets, replies, payloads, users, dirs, fs, widgets, ui>>

\* app.py 64-69, and the step of the loop
WriteAudio(s) ==
    /\ pc[s] = "write_audio"
    /\ LET audio_path == ScenePath(loc[s].temp_dir, loc[s].i, "mp3")
       IN  /\ fs' = WriteFile(fs, audio_path, loc[s].audio_data, s)
           /\ loc' = [loc EXCEPT
                         ![s].audio_files = Append(@, audio_path),
                         ![s].subtitles = Append(@, loc[s].scenes_text[loc[s].i + 1]),
                         ![s].i = @ + 1]
    /\ pc' = [pc EXCEPT ![s] = GenLoop(loc[s].i + 1, Len(loc[s].scenes_text))]
    /\ Logged(s, "write_audio", loc[s].i, TRUE)
    /\ UNCHANGED <<secrets, replies, payloads, users, dirs, widgets, ui>>

\* app.py 70, 108: the three lists go to the handler, the other locals end
Return(s) ==
    /\ pc[s] = "return"
    /\ loc' = [loc EXCEPT ![s].content = <<>>, ![s].scenes_text = <<>>,
                          ![s].i = 0 - 1, ![s].img_data = NoData,
                          ![s].audio_data = NoData]
    /\ pc' = [pc EXCEPT ![s] = "music"]
    /\ Logged(s, "return", 0 - 1, TRUE)
    /\ UNCHANGED <<secrets, replies, payloads, users, dirs, fs, widgets, ui>>

\* app.py 110-119, 73: the uploaded music, the output path, create_video's entry
Music(s) ==
    /\ pc[s] = "music"
    /\ LET up == widgets[s].music_upload
           mp == MusicPath(loc[s].temp_dir)
       IN  /\ fs' = IF up # NoUpload THEN WriteFile(fs, mp, up, s) ELSE fs
           /\ loc' = [loc EXCEPT
                         ![s].music_path = IF up # NoUpload THEN mp ELSE None,
                         ![s].output_path = OutputPath(loc[s].temp_dir),
                         ![s].clips = <<>>, ![s].k = 0]
    /\ pc' = [pc EXCEPT ![s] = CvLoop(0, ZipLen(loc[s]))]
    /\ Logged(s, "music", 0 - 1, TRUE)
    /\ UNCHANGED <<secrets, replies, payloads, users, dirs, widgets, ui>>

\* app.py 75: AudioFileClip(audio) reads the scene's audio file
CvAudio(s) ==
    /\ pc[s] = "cv_audio"
    /\ LET audio == loc[s].audio_files[loc[s].k + 1]
       IN  /\ Exists(fs, audio)
           /\ fs[audio].data > 0
           /\ loc' = [loc EXCEPT ![s].audio_clip = fs[audio].data]
    /\ pc' = [pc EXCEPT ![s] = "cv_image"]
    /\ Logged(s, "cv_audio", loc[s].k, TRUE)
    /\ UNCHANGED <<secrets, replies, payloads, users, dirs, fs, widgets, ui>>

\* app.py 76: ImageClip(img) reads the image file and lasts as the audio does
CvImage(s) ==
    /\ pc[s] = "cv_image"
    /\ LET img == loc[s].image_files[loc[s].k + 1]
       IN  /\ Exists(fs, img)
           /\ fs[img].data > 0
    /\ loc' = [loc EXCEPT ![s].img_clip = loc[s].audio_clip]
    /\ pc' = [pc EXCEPT ![s] = "cv_compose"]
    /\ Logged(s, "cv_image", loc[s].k, TRUE)
    /\ UNCHANGED <<secrets, replies, payloads, users, dirs, fs, widgets, ui>>

\* app.py 79-84: the subtitle, the composite with the audio, and clips.append
CvCompose(s) ==
    /\ pc[s] = "cv_compose"
    /\ LET subtitle_clip == loc[s].audio_clip
           video_clip == [duration |-> Max(loc[s].img_clip, subtitle_clip),
                          scene |-> loc[s].k,
                          audio |-> loc[s].audio_files[loc[s].k + 1]]
       IN  loc' = [loc EXCEPT ![s].clips = Append(@, video_clip),
                              ![s].k = @ + 1]
    /\ pc' = [pc EXCEPT ![s] = CvLoop(loc[s].k + 1, ZipLen(loc[s]))]
    /\ Logged(s, "cv_compose", loc[s].k, TRUE)
    /\ UNCHANGED <<secrets, replies, payloads, users, dirs, fs, widgets, ui>>

\* app.py 86
CvConcat(s) ==
    /\ pc[s] = "cv_concat"
    /\ loc[s].clips # <<>>
    /\ LET d == ConcatDuration(loc[s].clips)
       IN  loc' = [loc EXCEPT
                      ![s].final_clip =
                          [duration |-> d,
                           scenes |-> [j \in 1..Len(loc[s].clips) |->
                                          loc[s].clips[j].scene],
                           audio |-> <<[src |-> "narration", volume |-> 100,
                                        duration |-> d]>>]]
    /\ pc' = [pc EXCEPT ![s] = "cv_music"]
    /\ Logged(s, "cv_concat", 0 - 1, TRUE)
    /\ UNCHANGED <<secrets, replies, payloads, users, dirs, fs, widgets, ui>>

\* app.py 89-92: the music, at a tenth of its volume, looped to the clip's length
CvMusic(s) ==
    /\ pc[s] = "cv_music"
    /\ IF MixMusic(loc[s].music_path, fs)
       THEN /\ Exists(fs, loc[s].music_path)
            /\ fs[loc[s].music_path].data > 0
            /\ loc' = [loc EXCEPT
                          ![s].final_clip.audio =
                              Append(@, [src |-> "music", volume |-> 10,
                                         duration |-> loc[s].final_clip.duration])]
       ELSE loc' = loc
    /\ pc' = [pc EXCEPT ![s] = "cv_write"]
    /\ Logged(s, "cv_music", 0 - 1, TRUE)
    /\ UNCHANGED <<secrets, replies, payloads, users, dirs, fs, widgets, ui>>

\* app.py 94-95, 119: the encoded file; create_video's locals end
CvWrite(s) ==
    /\ pc[s] = "cv_write"
    /\ fs' = WriteFile(fs, loc[s].output_path, loc[s].final_clip.duration, s)
    /\ loc' = [loc EXCEPT ![s].k = 0 - 1, ![s].audio_clip = 0, ![s].img_clip = 0,
                          ![s].clips = <<>>, ![s].final_clip = NoClip]
    /\ pc' = [pc EXCEPT ![s] = "st_video"]
    /\ Logged(s, "cv_write", 0 - 1, TRUE)
    /\ UNCHANGED <<secrets, replies, payloads, users, dirs, widgets, ui>>

\* app.py 121-122
StVideo(s) ==
    /\ pc[s] = "st_video"
    /\ ui' = [ui EXCEPT ![s].video = TRUE, ![s].success = TRUE]
    /\ pc' = [pc EXCEPT ![s] = "cleanup"]
    /\ Logged(s, "st_video", 0 - 1, TRUE)
    /\ UNCHANGED <<secrets, replies, payloads, users, dirs, fs, widgets, loc>>

\* app.py 124-125
Except(s) ==
    /\ pc[s] = "except"
    /\ ui' = [ui EXCEPT ![s] = ShowError(@)]
    /\ pc' = [pc EXCEPT ![s] = "cleanup"]
    /\ Logged(s, "except", 0 - 1, TRUE)
    /\ UNCHANGED <<secrets, replies, payloads, users, dirs, fs, widgets, loc>>

\* app.py 105: the end of the with block removes the scratch directory
Cleanup(s) ==
    /\ pc[s] = "cleanup"
    /\ fs' = RmTree(fs, loc[s].temp_dir)
    /\ dirs' = dirs \ {loc[s].temp_dir}
    /\ loc' = [loc EXCEPT ![s] = Blank]
    /\ pc' = [pc EXCEPT ![s] = "idle"]
    /\ log' = [log EXCEPT ![s] = <<>>]
    /\ UNCHANGED <<secrets, replies, payloads, users, widgets, ui>>

\* an exception raised by the call of the current step (app.py 28-95); a
\* writing step that fails may leave the file it opened, empty
Raise(s) ==
    /\ pc[s] \in Fallible
    /\ pc[s] = "music" => widgets[s].music_upload # NoUpload
    /\ pc[s] = "cv_music" => MixMusic(loc[s].music_path, fs)
    /\ \E opened \in BOOLEAN :
        fs' = IF opened /\ pc[s] \in WritePcs
              THEN WriteFile(fs, WriteTarget(s), 0, s)
              ELSE fs
    /\ loc' = [loc EXCEPT
                  ![s] = IF pc[s] \in GeneratePcs
                         THEN [Blank EXCEPT !.temp_dir = loc[s].temp_dir]
                         ELSE [@ EXCEPT !.k = 0 - 1, !.audio_clip = 0,
                                        !.img_clip = 0, !.clips = <<>>,
                                        !.final_clip = NoClip]]
    /\ pc' = [pc EXCEPT ![s] = RaiseTarget(pc[s])]
    /\ Logged(s, pc[s], StepIndex(s), FALSE)
    /\ UNCHANGED <<secrets, replies, payloads, users, dirs, widgets, ui>>

\* ---------------------------------------------------------- specifications

InitSessions ==
    /\ widgets = [s \in Sessions |->
                     [text_input |-> <<>>, music_upload |-> NoUpload, button |-> FALSE]]
    /\ loc = [s \in Sessions |-> Blank]
    /\ ui = [s \in Sessions |-> NoUi]
    /\ log = [s \in Sessions |-> <<>>]

\* the process after its start: one user, every reply and every payload, or
\* two users at once, replies of one line and of MinScenes lines, and non-empty
\* payloads
Init ==
    /\ secrets \in [SecretNames -> SecretValues]
    /\ \/ users = {"s1"} /\ replies = AppReplies /\ payloads = {0, 1}
       \/ /\ users = Sessions
          /\ replies = {ReplyOfLines(1), ReplyOfLines(MinScenes)}
          /\ payloads = {1}
    /\ dirs = {}
    /\ fs = <<>>
    /\ pc = [s \in Sessions |-> "idle"]
    /\ InitSessions

Next ==
    \E s \in Sessions :
        \/ Interact(s)
        \/ TempDir(s)
        \/ Complete(s)
        \/ ImageReq(s)
        \/ Download(s)
        \/ WriteImg(s)
        \/ Speech(s)
        \/ WriteAudio(s)
        \/ Return(s)
        \/ Music(s)
        \/ CvAudio(s)
        \/ CvImage(s)
        \/ CvCompose(s)
        \/ CvConcat(s)
        \/ CvMusic(s)
        \/ CvWrite(s)
        \/ StVideo(s)
        \/ Except(s)
        \/ Cleanup(s)
        \/ Raise(s)

Spec == Init /\ [][Next]_vars

\* generate_scene_images_and_audio at its completion request, for every story
\* the handler lets through and every reply of at most MaxLen characters
InitSeg ==
    /\ secrets = [n \in SecretNames |-> "key"]
    /\ users = {"s1"}
    /\ replies = Strings(MaxLen)
    /\ payloads = {1}
    /\ dirs = {"tmpA"}
    /\ fs = <<>>
    /\ pc = [s \in Sessions |-> IF s = "s1" THEN "completion" ELSE "idle"]
    /\ \E t \in {x \in Strings(2) : Strip(x) # <<>>} :
        widgets = [s \in Sessions |->
                      [text_input |-> IF s = "s1" THEN t ELSE <<>>,
                       music_upload |-> NoUpload, button |-> s = "s1"]]
    /\ loc = [s \in Sessions |->
                 IF s = "s1" THEN [Blank EXCEPT !.temp_dir = "tmpA"] ELSE Blank]
    /\ ui = [s \in Sessions |-> NoUi]
    /\ log = [s \in Sessions |->
                 IF s = "s1" THEN <<Ev("tmpdir", 0 - 1, TRUE)>> ELSE <<>>]

NextSeg == \E s \in Sessions : Complete(s)

SpecSeg == InitSeg /\ [][NextSeg]_vars

\* create_video at its entry, called with index-aligned lists of at most
\* MaxClips scenes whose files hold any payload up to MaxDur, and with any
\* music path: none, the empty string, a file that exists or one that does not
InitVideo ==
    /\ secrets = [n \in SecretNames |-> "key"]
    /\ users = {"s1"}
    /\ replies = {}
    /\ payloads = {}
    /\ dirs = {"tmpA"}
    /\ pc = [s \in Sessions |-> IF s = "s1" THEN "cv_audio" ELSE "idle"]
    /\ widgets = [s \in Sessions |->
                     [text_input |-> <<>>, music_upload |-> NoUpload, button |-> FALSE]]
    /\ ui = [s \in Sessions |-> NoUi]
    /\ log = [s \in Sessions |-> <<>>]
    /\ \E n \in 1..MaxClips :
        \E aud \in [0..(n - 1) -> 0..MaxDur], img \in [0..(n - 1) -> {0, 1}],
           mus \in {NoData} \cup 0..MaxDur,
           mp \in {None, EmptyPath, MusicPath("tmpA")} :
            LET scene == {ScenePath("tmpA", m, e) : m \in 0..(n - 1), e \in {"png", "mp3"}}
                files == scene \cup (IF mus = NoData THEN {} ELSE {MusicPath("tmpA")})
            IN  /\ fs = [q \in files |->
                            [data |-> IF q = MusicPath("tmpA") THEN mus
                                      ELSE IF q[2][3] = "png" THEN img[q[2][2]]
                                      ELSE aud[q[2][2]],
                             by |-> "s1"]]
                /\ loc = [s \in Sessions |->
                             IF s # "s1" THEN Blank
                             ELSE [Blank EXCEPT
                                      !.temp_dir = "tmpA",
                                      !.image_files =
                                          [j \in 1..n |-> ScenePath("tmpA", j - 1, "png")],
                                      !.audio_files =
                                          [j \in 1..n |-> ScenePath("tmpA", j - 1, "mp3")],
                                      !.subtitles = [j \in 1..n |-> [m \in 1..j |-> "a"]],
                                      !.music_path = mp,
                                      !.output_path = OutputPath("tmpA"),
                                      !.k = 0]]

NextVideo ==
    \E s \in Sessions :
        \/ CvAudio(s)
        \/ CvImage(s)
        \/ CvCompose(s)
        \/ CvConcat(s)
        \/ CvMusic(s)
        \/ CvWrite(s)
        \/ Raise(s)

SpecVideo == InitVideo /\ [][NextVideo]_vars

\* ------------------------------------------------------------------ claims

Missing(s, p) == ~Exists(fs, p) \/ fs[p].data = 0

NonEmptyLines(content) ==
    LET lines == Split(content, "\n")
    IN  Cardinality({j \in DOMAIN lines : lines[j] # <<>>})

\* C1: once the reply is segmented there is at least one caption, and a reply
\* with fewer than 3 non-empty lines yields exactly the story text as the one
\* caption.
C1_FallbackOnFewLines ==
    \A s \in Sessions :
        pc[s] \in {"image_req", "return"} =>
            /\ Len(loc[s].scenes_text) > 0
            /\ NonEmptyLines(loc[s].content) < 3 =>
                   loc[s].scenes_text = <<widgets[s].text_input>>

\* C2: after a step of a run has raised, the only thing the run still does is
\* show the error: no request, no file write, no video, and once the handler
\* has run exactly one error message is on the page.
C2_ErrorAborts ==
    \A s \in Sessions :
        /\ ui[s].errors <= 1
        /\ ~(ui[s].video /\ ui[s].errors > 0)
        /\ \A j \in DOMAIN log[s] :
               ~log[s][j].ok =>
                   /\ \A m \in (j + 1)..Len(log[s]) : log[s][m].op = "except"
                   /\ ~ui[s].video
                   /\ ui[s].errors = IF pc[s] = "except" THEN 0 ELSE 1

C2_Witness ==
    \E s \in Sessions :
        /\ pc[s] = "cleanup"
        /\ ui[s].errors = 1
        /\ \E j \in DOMAIN log[s] : log[s][j] = Ev("cv_write", 0 - 1, FALSE)

\* C3: when generate_scene_images_and_audio returns for N captions, it returns
\* N image paths, N audio paths and N subtitles, position i being scene_i.png,
\* scene_i.mp3 of the run's scratch directory and the i-th caption.
C3_AlignedAssets ==
    \A s \in Sessions :
        pc[s] = "return" =>
            LET L == loc[s]
                N == Len(L.scenes_text)
            IN  /\ Len(L.image_files) = N
                /\ Len(L.audio_files) = N
                /\ Len(L.subtitles) = N
                /\ \A j \in 1..N :
                       /\ L.image_files[j] = <<L.temp_dir, <<"scene", j - 1, "png">>>>
                       /\ L.audio_files[j] = <<L.temp_dir, <<"scene", j - 1, "mp3">>>>
                       /\ L.subtitles[j] = L.scenes_text[j]

C3_Witness ==
    \E s \in Sessions : pc[s] = "return" /\ Len(loc[s].scenes_text) = 3

\* C4: when create_video is about to read the bundle of a scene, the scene's
\* image file and audio file both exist and are non-empty.
C4_AssetsNonEmpty ==
    \A s \in Sessions :
        pc[s] \in {"cv_audio", "cv_image"} =>
            /\ ~Missing(s, loc[s].image_files[loc[s].k + 1])
            /\ ~Missing(s, loc[s].audio_files[loc[s].k + 1])

RECURSIVE AudioSum(_, _)
AudioSum(fsv, files) ==
    IF files = <<>> THEN 0 ELSE fsv[Head(files)].data + AudioSum(fsv, Tail(files))

\* C5: create_video makes one sub-clip per scene, in scene order, each as long
\* as the scene's audio, and the final clip (with or without music) and the
\* written video last as long as all the scenes' audio together.
C5_DurationIsSum ==
    \A s \in Sessions :
        LET L == loc[s]
        IN  /\ pc[s] \in VideoPcs =>
                   \A j \in DOMAIN L.clips :
                       /\ L.clips[j].scene = j - 1
                       /\ L.clips[j].duration = fs[L.audio_files[j]].data
            /\ pc[s] \in {"cv_music", "cv_write"} =>
                   /\ Len(L.final_clip.scenes) = Len(L.subtitles)
                   /\ \A j \in DOMAIN L.final_clip.scenes :
                          L.final_clip.scenes[j] = j - 1
                   /\ L.final_clip.duration = AudioSum(fs, L.audio_files)
            /\ pc[s] = "st_video" =>
                   fs[L.output_path].data = AudioSum(fs, L.audio_files)

C5_Witness ==
    \E s \in Sessions :
        /\ pc[s] = "cv_write"
        /\ Len(loc[s].final_clip.audio) = 2
        /\ Len(loc[s].audio_files) = 2
        /\ fs[loc[s].audio_files[1]].data = 1
        /\ fs[loc[s].audio_files[2]].data = 2
        /\ loc[s].final_clip.duration = 3

HasMusic(clip) == \E j \in DOMAIN clip.audio : clip.audio[j].src = "music"

HasNarration(clip) == \E j \in DOMAIN clip.audio : clip.audio[j].src = "narration"

\* C6: the final audio holds the music next to the narration exactly when a
\* music path is given and the file is there; otherwise it is the narration
\* alone, and the music step fails only when there is a music file to read.
C6_MusicIffSuppliedAndExists ==
    \A s \in Sessions :
        LET mp == loc[s].music_path
        IN  /\ pc[s] = "cv_write" =>
                   /\ HasNarration(loc[s].final_clip)
                   /\ HasMusic(loc[s].final_clip) <=> (mp # None /\ mp \in DOMAIN fs)
            /\ \A j \in DOMAIN log[s] :
                   log[s][j] = Ev("cv_music", 0 - 1, FALSE) =>
                       (mp # None /\ mp \in DOMAIN fs)

C6_Witness ==
    \E s \in Sessions :
        /\ pc[s] = "cv_write"
        /\ loc[s].music_path = <<"tmpA", <<"background_music", 0, "mp3">>>>
        /\ loc[s].music_path \notin DOMAIN fs
        /\ ~HasMusic(loc[s].final_clip)

SecretAbsent == \E n \in SecretNames : secrets[n] \in {"None", ""}

\* C7: with one of the three configuration values missing no run ever starts:
\* every session stays at the stopped script, no request is issued, no
\* directory or file is made, whatever is submitted.
C7_MissingConfigStops ==
    SecretAbsent =>
        /\ \A s \in Sessions : pc[s] = "idle" /\ log[s] = <<>> /\ ~ui[s].video
        /\ dirs = {}
        /\ fs = <<>>

C7_Witness ==
    /\ SecretAbsent
    /\ \E s \in Sessions :
        /\ widgets[s].button
        /\ widgets[s].text_input = <<"a">>
        /\ ui[s].config

\* the files a run has written and still uses
Held(s) ==
    Range(loc[s].image_files) \cup Range(loc[s].audio_files)
        \cup (IF loc[s].music_path = None THEN {} ELSE {loc[s].music_path})
        \cup (IF pc[s] = "st_video" THEN {loc[s].output_path} ELSE {})

Running(s) == pc[s] \notin {"idle", "tmpdir"}

\* C8: two runs in progress have different scratch directories; every file is
\* in the scratch directory of the run that wrote it; and every file a run
\* has written and still uses is there and was last written by that run, so
\* the other run neither overwrote nor deleted it.
C8_RunsIsolated ==
    /\ \A s, t \in Sessions :
           (s # t /\ Running(s) /\ Running(t)) => loc[s].temp_dir # loc[t].temp_dir
    /\ \A p \in DOMAIN fs :
           Running(fs[p].by) /\ p[1] = loc[fs[p].by].temp_dir
    /\ \A s \in Sessions :
           \A p \in Held(s) : p \in DOMAIN fs /\ fs[p].by = s

C8_Witness ==
    \E s, t \in Sessions :
        /\ s # t
        /\ pc[s] = "st_video"
        /\ pc[t] = "cv_audio"
        /\ Len(loc[s].image_files) = 3
        /\ Len(loc[t].image_files) = 3
        /\ loc[s].music_path # None
        /\ loc[t].music_path # None

Done(s, j, op, n) == \E m \in 1..(j - 1) : log[s][m] = Ev(op, n, TRUE)

\* C9: an image or speech request comes after the completion has answered;
\* image requests come in ascending scene order; a scene's speech request
\* comes after its image file is written; a scene starts after both files of
\* the scene before it are written; and every step of create_video comes after
\* the image and audio files of all the scenes are written.  (Every step
\* appends its event to the log, so each event is judged in the state where it
\* is the last one.)
C9_StageOrder ==
    \A s \in Sessions :
        log[s] # <<>> =>
            LET j == Len(log[s])
                e == log[s][j]
            IN  /\ e.op \in {"image_req", "speech"} =>
                       \E m \in 1..(j - 1) :
                           log[s][m].op = "completion" /\ log[s][m].ok
                /\ e.op = "image_req" =>
                       /\ \A m \in 1..(j - 1) :
                              log[s][m].op = "image_req" => log[s][m].n < e.n
                       /\ e.n > 0 =>
                              /\ Done(s, j, "write_img", e.n - 1)
                              /\ Done(s, j, "write_audio", e.n - 1)
                /\ e.op = "speech" => Done(s, j, "write_img", e.n)
                /\ e.op \in VideoPcs =>
                       \E m \in 1..(j - 1) :
                           /\ log[s][m].op = "completion"
                           /\ log[s][m].ok
                           /\ \A n \in 0..(log[s][m].n - 1) :
                                  /\ Done(s, j, "write_img", n)
                                  /\ Done(s, j, "write_audio", n)

C9_Witness ==
    \E s \in Sessions :
        /\ pc[s] = "cv_image"
        /\ Len(loc[s].subtitles) = 3
        /\ log[s][Len(log[s])] = Ev("cv_audio", 0, TRUE)

\* C10: in a run no request and no write of the video happens twice: at most
\* one completion request, at most one image request, download and speech
\* request per scene, at most one write of the video file.  (Each event is
\* compared, when it is the last one, with all the events before it.)
C10_NoRetry ==
    \A s \in Sessions :
        log[s] # <<>> =>
            LET m == Len(log[s])
            IN  log[s][m].op \in
                    {"completion", "image_req", "download", "speech", "cv_write"}
                    => \A j \in 1..(m - 1) :
                           ~(log[s][j].op = log[s][m].op /\ log[s][j].n = log[s][m].n)

C10_Witness ==
    \E s \in Sessions :
        /\ pc[s] = "cleanup"
        /\ \E j \in DOMAIN log[s] : log[s][j] = Ev("speech", 1, FALSE)
        /\ \E j \in DOMAIN log[s] : log[s][j] = Ev("speech", 0, TRUE)

====
